---- MODULE Spec2Model ----
(***************************************************************************)
(* Swipelift (src/src/App.jsx): a deck of exercise cards reordered by      *)
(* swipes, a logging modal, a side drawer to add and remove exercises, and *)
(* two localStorage keys rewritten whenever the catalog or the deck is     *)
(* set.                                                                    *)
(*                                                                         *)
(* Text is modelled as a sequence of one-character strings, so that the    *)
(* id derivation, trimming and number parsing are computed character by    *)
(* character as the code does.  Every handler runs to completion and React *)
(* re-renders (and runs the persist effects) before the next event, so     *)
(* each handler together with the effects it triggers is one action.       *)
(***************************************************************************)
EXTENDS Integers, Sequences, FiniteSets, TLC

VARIABLES
    exercises,      \* useState: the Catalog, a sequence of exercise records
    deck,           \* useState: the Deck, a sequence of ids
    menuOpen,       \* useState: the side drawer is rendered
    modalOpen,      \* useState: the logging modal is rendered
    modalExercise,  \* useState: the record handed to the modal, or Null
    weight,         \* useState: modal text fields
    reps,
    notes,
    dragX,          \* useState: horizontal drag offset
    isDragging,     \* useState: a drag is in progress
    store,          \* localStorage: key -> stored text (as a JSON value) or Missing
    loads,          \* number of localStorage reads per key
    lastOp,         \* history variable: the handler that ran last
    steps,          \* history variable: the number of events handled so far
    swipeDeck       \* history variable: the Deck when the modal was opened

vars == <<exercises, deck, menuOpen, modalOpen, modalExercise, weight, reps,
          notes, dragX, isDragging, store, loads, lastOp, steps, swipeDeck>>

-----------------------------------------------------------------------------
(* Bounds of the model *)

\* The model follows a session for this many events (gestures, clicks,
\* edits of a text box).
MaxSteps == 6

-----------------------------------------------------------------------------
(* JavaScript values *)

\* Values that share a slot with values of another shape are records, each
\* shape with its own field.
Null == [null |-> TRUE]
Undefined == [undefined |-> TRUE]
NaN == [nan |-> TRUE]
Num(n) == [num |-> n]
Str(s) == [str |-> s]

UpperCase == <<"A","B","C","D","E","F","G","H","I","J","K","L","M",
               "N","O","P","Q","R","S","T","U","V","W","X","Y","Z">>
LowerCase == <<"a","b","c","d","e","f","g","h","i","j","k","l","m",
               "n","o","p","q","r","s","t","u","v","w","x","y","z">>
Digits == <<"0","1","2","3","4","5","6","7","8","9">>

Range(s) == {s[i] : i \in DOMAIN s}

\* Array.prototype.slice(1)
Slice1(a) == IF Len(a) = 0 THEN <<>> ELSE Tail(a)

\* Array.prototype.splice(at, 0, x) on a copy of a
Splice(a, at, x) == SubSeq(a, 1, at) \o <<x>> \o SubSeq(a, at + 1, Len(a))

Min(a, b) == IF a < b THEN a ELSE b

\* String.prototype.toLowerCase, on the letters A-Z
UpperToLower ==
    [c \in Range(UpperCase) |->
        LowerCase[CHOOSE k \in DOMAIN UpperCase : UpperCase[k] = c]]
ToLowerChar(c) == IF c \in DOMAIN UpperToLower THEN UpperToLower[c] ELSE c
toLowerCase(s) == [i \in DOMAIN s |-> ToLowerChar(s[i])]

\* the character class [a-z0-9]
SlugChars == Range(LowerCase) \cup Range(Digits)
IsSlugChar(c) == c \in SlugChars

\* (variant) /[^a-z0-9]/g, without the +: every other character becomes
\* a "-" of its own
ReplaceRuns_EachChar(s) == [i \in DOMAIN s |-> IF IsSlugChar(s[i]) THEN s[i] ELSE "-"]

\* .replace(/[^a-z0-9]+/g, "-"): every maximal run of other characters
\* becomes one "-"
RECURSIVE ReplaceRuns(_)
ReplaceRuns(s) ==
    IF Len(s) = 0 THEN <<>>
    ELSE IF IsSlugChar(Head(s)) THEN <<Head(s)>> \o ReplaceRuns(Tail(s))
    ELSE IF Len(s) > 1 /\ ~IsSlugChar(s[2]) THEN ReplaceRuns(Tail(s))
    ELSE <<"-">> \o ReplaceRuns(Tail(s))

\* .replace(/(^-|-$)/g, ""): one "-" at the start and one at the end go
StripEdges(s) ==
    LET a == IF Len(s) > 0 /\ Head(s) = "-" THEN Tail(s) ELSE s
    IN  IF Len(a) > 0 /\ a[Len(a)] = "-" THEN SubSeq(a, 1, Len(a) - 1) ELSE a

\* addExercise, line 149
deriveId(name) == StripEdges(ReplaceRuns(toLowerCase(name)))

\* String.prototype.trim (the only white space of the model is " ")
RECURSIVE TrimStart(_)
TrimStart(s) == IF Len(s) > 0 /\ Head(s) = " " THEN TrimStart(Tail(s)) ELSE s
RECURSIVE TrimEnd(_)
TrimEnd(s) ==
    IF Len(s) > 0 /\ s[Len(s)] = " " THEN TrimEnd(SubSeq(s, 1, Len(s) - 1)) ELSE s
trim(s) == TrimEnd(TrimStart(s))

\* Number(text) for the texts of the model: a string of decimal digits is
\* its value, any other non-empty text is NaN
DigitChars == Range(Digits)
DigitValue(c) == (CHOOSE k \in DOMAIN Digits : Digits[k] = c) - 1
RECURSIVE DecimalValue(_)
DecimalValue(s) ==
    IF Len(s) = 0 THEN 0
    ELSE 10 * DecimalValue(SubSeq(s, 1, Len(s) - 1)) + DigitValue(s[Len(s)])
Number(s) ==
    IF \A i \in DOMAIN s : s[i] \in DigitChars THEN Num(DecimalValue(s)) ELSE NaN

-----------------------------------------------------------------------------
(* localStorage and JSON *)

LS_KEYS == [exercises |-> "swipelift.exercises", deck |-> "swipelift.deck"]

Missing == [missing |-> TRUE]

\* JSON.stringify: NaN is written as null, and a key whose value is
\* undefined is left out of the object
JsonScalar(v) == IF v = NaN THEN Null ELSE v

\* a SetEntry: date is always there, weight, reps and notes may be undefined
JsonEntry(e) ==
    [f \in {"date"} \cup {g \in {"weight", "reps", "notes"} : e[g] # Undefined} |->
        IF f = "date" THEN e.date ELSE JsonScalar(e[f])]

\* an exercise record: muscle may be undefined
JsonExercise(e) ==
    [f \in {"id", "name", "history"} \cup
           (IF e.muscle # Undefined THEN {"muscle"} ELSE {}) |->
        IF f = "history"
        THEN [i \in DOMAIN e.history |-> JsonEntry(e.history[i])]
        ELSE e[f]]

\* JSON.stringify(value) for the two values the app stores
StringifyExercises(arr) == [i \in DOMAIN arr |-> JsonExercise(arr[i])]
StringifyDeck(d) == d

\* saveLS(key, value): value already stringified
saveLS(st, key, text) == [st EXCEPT ![key] = [json |-> text]]

\* JSON.parse: a key the object lacks reads as undefined
ParseObject(o, fields) ==
    [f \in fields |-> IF f \in DOMAIN o THEN o[f] ELSE Undefined]
ParseEntry(o) == ParseObject(o, {"date", "weight", "reps", "notes"})
ParseExercise(o) ==
    [f \in {"id", "name", "muscle", "history"} |->
        IF f = "history"
        THEN [i \in DOMAIN o.history |-> ParseEntry(o.history[i])]
        ELSE IF f \in DOMAIN o THEN o[f] ELSE Undefined]
ParseExercises(text) == [i \in DOMAIN text |-> ParseExercise(text[i])]
ParseDeck(text) == text

\* What a key of localStorage may hold besides the text saveLS wrote
\* ([json |-> ...], the JSON text of an array): nothing, the empty string,
\* a text that is not JSON (such as "{oops"), and the JSON text "null".
Blank == [blank |-> TRUE]
Garbage == [garbage |-> TRUE]
JsonNull == [jsonNull |-> TRUE]

\* JSON.parse throws a SyntaxError on raw
ParseThrows(raw) == raw = Garbage

\* JSON.parse of the text raw stored under key
JSONparse(key, raw) ==
    IF raw = JsonNull THEN Null
    ELSE IF key = LS_KEYS.exercises THEN ParseExercises(raw.json)
    ELSE ParseDeck(raw.json)

\* loadLS(key, fallback): raw ? JSON.parse(raw) : fallback, and the
\* fallback when JSON.parse throws
loadLS(st, key, fallback) ==
    LET raw == st[key]
    IN  IF raw = Missing \/ raw = Blank THEN fallback
        ELSE IF ParseThrows(raw) THEN fallback
        ELSE JSONparse(key, raw)

-----------------------------------------------------------------------------
(* Seed data *)

sampleExercises ==
    << [id |-> <<"d","e","a","d","l","i","f","t">>,
        name |-> <<"D","e","a","d","l","i","f","t">>,
        muscle |-> Str(<<"P","o","s","t","e","r","i","o","r"," ","c","h","a","i","n">>),
        history |-> <<>>],
       [id |-> <<"s","q","u","a","t">>,
        name |-> <<"B","a","c","k"," ","S","q","u","a","t">>,
        muscle |-> Str(<<"Q","u","a","d","s","/","G","l","u","t","e","s">>),
        history |-> <<>>],
       [id |-> <<"b","e","n","c","h">>,
        name |-> <<"B","e","n","c","h"," ","P","r","e","s","s">>,
        muscle |-> Str(<<"C","h","e","s","t","/","T","r","i","c","e","p","s">>),
        history |-> <<>>] >>

\* sampleExercises.map((e) => e.id)
sampleDeck == [i \in DOMAIN sampleExercises |-> sampleExercises[i].id]

-----------------------------------------------------------------------------
(* Inputs *)

\* what the user may type into the "Exercise name" box
NameInputs ==
    { <<" ","R","o","w","!">>,
      <<"D","i","p">>,
      <<"B","a","c","k"," ","S","q","u","a","t">>,
      <<"s","q","u","a","t">>,
      <<"-","-">>,
      <<" ">> }

\* what the user may type into the "Muscle (optional)" box
MuscleInputs == { <<" ">> }

\* what the user may type into the modal's boxes
WeightInputs == { <<>>, <<"1","0","0">> }
RepsInputs == { <<>>, <<"x">> }
NotesInputs == { <<>>, <<"o","k">> }

\* e.deltaX of a swipe in progress
DeltaXs == {-1, 1}

\* new Date().toISOString()
Dates == {1, 2}

-----------------------------------------------------------------------------
(* Derived values of a render *)

Ids(arr) == {arr[i].id : i \in DOMAIN arr}

\* exercises.find((e) => e.id === id) || null
Find(arr, id) ==
    IF \E i \in DOMAIN arr : arr[i].id = id
    THEN arr[CHOOSE i \in DOMAIN arr :
                 arr[i].id = id /\ \A j \in 1..(i - 1) : arr[j].id # id]
    ELSE Null

\* const currentId = deck[0]; const current = exercises.find(...) || null
current == IF Len(deck) = 0 THEN Null ELSE Find(exercises, deck[1])

\* The card, with the swipe handlers, is rendered only when there is a
\* current exercise.
CardRendered == current # Null

\* (variant) the overlay lets pointer gestures through to the card
CardCovered_Never == FALSE

\* The modal's overlay (position fixed, inset 0, zIndex 50) lies over the
\* card while the modal is open, so no pointer gesture starts on the card.
CardCovered == modalOpen

-----------------------------------------------------------------------------
(* Initial state: first run, nothing stored *)

emptyStore == [k \in {LS_KEYS.exercises, LS_KEYS.deck} |-> Missing]

\* (variant) the effect on deck is missing
PersistDeck_Missing(st, d) == st

\* the two persist effects, run after a render in which the value was set
PersistExercises(st, arr) == saveLS(st, LS_KEYS.exercises, StringifyExercises(arr))
PersistDeck(st, d) == saveLS(st, LS_KEYS.deck, StringifyDeck(d))

Init ==
    /\ exercises = loadLS(emptyStore, LS_KEYS.exercises, sampleExercises)
    /\ deck = loadLS(emptyStore, LS_KEYS.deck, sampleDeck)
    /\ menuOpen = FALSE
    /\ modalOpen = FALSE
    /\ modalExercise = Null
    /\ weight = <<>>
    /\ reps = <<>>
    /\ notes = <<>>
    /\ dragX = 0
    /\ isDragging = FALSE
    /\ store = PersistDeck(PersistExercises(emptyStore, exercises), deck)
    /\ loads = [k \in {LS_KEYS.exercises, LS_KEYS.deck} |-> 1]
    /\ lastOp = "start"
    /\ steps = 0
    /\ swipeDeck = <<>>

-----------------------------------------------------------------------------
(* The handlers' computations *)

\* "reinsert 4 places later"
SkipOffset == 4

\* (variant) the offset is one too large
SkipDeck_OneFurther(d, id) ==
    Splice(Slice1(d), Min(SkipOffset + 1, Len(Slice1(d))), id)

\* (variant) the skipped card always goes to the back
SkipDeck_ToBack(d, id) == Slice1(d) \o <<id>>

\* onSwipedLeft: rest = deck.slice(1); offset = Math.min(4, rest.length);
\* newDeck = [...rest]; newDeck.splice(offset, 0, current.id)
SkipDeck(d, id) ==
    LET rest == Slice1(d)
        offset == Min(SkipOffset, Len(rest))
    IN  Splice(rest, offset, id)

\* (variant) the logged card stays at the head
SendToBack_KeepsHead(d, id) == <<id>> \o Slice1(d)

\* saveLog: (d) => [...d.slice(1), modalExercise.id]
SendToBack(d, id) == Slice1(d) \o <<id>>

\* Cancel and closeModal(false): (d) => [modalExercise.id, ...d.slice(1)]
SnapBack(d, id) == <<id>> \o Slice1(d)

\* weight ? Number(weight) : undefined
NumberOrUndefined(text) == IF Len(text) > 0 THEN Number(text) ELSE Undefined

\* notes || undefined
TextOrUndefined(text) == IF Len(text) > 0 THEN Str(text) ELSE Undefined

\* saveLog: the new SetEntry
NewEntry(t) ==
    [date |-> t,
     weight |-> NumberOrUndefined(weight),
     reps |-> NumberOrUndefined(reps),
     notes |-> TextOrUndefined(notes)]

\* (variant) history: [entry] instead of [...e.history, entry]
AppendEntry_Overwrite(arr, id, entry) ==
    [i \in DOMAIN arr |->
        IF arr[i].id = id THEN [arr[i] EXCEPT !.history = <<entry>>] ELSE arr[i]]

\* saveLog: exercises.map((e) => e.id === id ? {...e, history: [...e.history, entry]} : e)
AppendEntry(arr, id, entry) ==
    [i \in DOMAIN arr |->
        IF arr[i].id = id
        THEN [arr[i] EXCEPT !.history = Append(@, entry)]
        ELSE arr[i]]

\* (variant) the deck is left as it is
RemoveFromDeck_Kept(d, id) == d

\* removeExercise: arr.filter((e) => e.id !== id), d.filter((x) => x !== id)
RemoveRecord(arr, id) == SelectSeq(arr, LAMBDA e : e.id # id)
RemoveFromDeck(d, id) == SelectSeq(d, LAMBDA x : x # id)

\* (variant) only the empty id is refused
AddRefused_EmptyOnly(arr, id) == Len(id) = 0

\* addExercise: the id is empty or taken
AddRefused(arr, id) == Len(id) = 0 \/ id \in Ids(arr)

-----------------------------------------------------------------------------
(* Handlers *)

\* bookkeeping of the history variables: one more event is handled, and it
\* was op
Event(op) ==
    /\ steps < MaxSteps
    /\ steps' = steps + 1
    /\ lastOp' = op

\* the hamburger button
ToggleMenu ==
    /\ menuOpen' = ~menuOpen
    /\ Event("menu")
    /\ UNCHANGED <<exercises, deck, modalOpen, modalExercise, weight, reps,
                   notes, dragX, isDragging, store, loads, swipeDeck>>

\* onSwiping: the pointer moves during a gesture on the card
OnSwiping(deltaX) ==
    /\ CardRendered /\ ~CardCovered
    /\ isDragging' = TRUE
    /\ dragX' = deltaX
    /\ Event("swiping")
    /\ UNCHANGED <<exercises, deck, menuOpen, modalOpen, modalExercise, weight,
                   reps, notes, store, loads, swipeDeck>>

\* A gesture ends: one made on the rendered, uncovered card, or one that
\* has been in progress since an earlier onSwiping.  The listeners of a
\* gesture in progress outlive the card (a second finger, or the keyboard,
\* can remove the exercise meanwhile), and they call the handlers of the
\* latest render.
SwipeEnds == (CardRendered /\ ~CardCovered) \/ isDragging

\* (variant) onSwiped without setDragX(0)
OnSwiped_KeepsOffset ==
    /\ SwipeEnds
    /\ isDragging' = FALSE
    /\ Event("swiped")
    /\ UNCHANGED <<exercises, deck, menuOpen, modalOpen, modalExercise, weight,
                   reps, notes, dragX, store, loads, swipeDeck>>

\* onSwiped alone: a gesture that ends neither left nor right
OnSwiped ==
    /\ SwipeEnds
    /\ isDragging' = FALSE
    /\ dragX' = 0
    /\ Event("swiped")
    /\ UNCHANGED <<exercises, deck, menuOpen, modalOpen, modalExercise, weight,
                   reps, notes, store, loads, swipeDeck>>

\* onSwiped and onSwipedLeft: Skip
SwipedLeft ==
    /\ SwipeEnds
    /\ Event("skip")
    /\ isDragging' = FALSE
    /\ dragX' = 0
    /\ IF current = Null
       THEN UNCHANGED <<deck, store>>
       ELSE /\ deck' = SkipDeck(deck, current.id)
            /\ store' = PersistDeck(store, deck')
    /\ UNCHANGED <<exercises, menuOpen, modalOpen, modalExercise, weight, reps,
                   notes, loads, swipeDeck>>

\* (variant) onSwipedRight without its "if (!current) return"
SwipedRight_Unguarded ==
    /\ SwipeEnds
    /\ Event("open")
    /\ isDragging' = FALSE
    /\ dragX' = 0
    /\ modalExercise' = current
    /\ modalOpen' = TRUE
    /\ swipeDeck' = deck
    /\ UNCHANGED <<exercises, deck, menuOpen, weight, reps, notes, store, loads>>

\* onSwiped and onSwipedRight: open the modal, the card does not move yet
SwipedRight ==
    /\ SwipeEnds
    /\ Event("open")
    /\ isDragging' = FALSE
    /\ dragX' = 0
    /\ IF current = Null
       THEN UNCHANGED <<modalExercise, modalOpen, swipeDeck>>
       ELSE /\ modalExercise' = current
            /\ modalOpen' = TRUE
            /\ swipeDeck' = deck
    /\ UNCHANGED <<exercises, deck, menuOpen, weight, reps, notes, store, loads>>

\* the modal's three inputs
TypeWeight(text) ==
    /\ modalOpen
    /\ weight' = text
    /\ Event("type")
    /\ UNCHANGED <<exercises, deck, menuOpen, modalOpen, modalExercise, reps,
                   notes, dragX, isDragging, store, loads, swipeDeck>>

TypeReps(text) ==
    /\ modalOpen
    /\ reps' = text
    /\ Event("type")
    /\ UNCHANGED <<exercises, deck, menuOpen, modalOpen, modalExercise, weight,
                   notes, dragX, isDragging, store, loads, swipeDeck>>

TypeNotes(text) ==
    /\ modalOpen
    /\ notes' = text
    /\ Event("type")
    /\ UNCHANGED <<exercises, deck, menuOpen, modalOpen, modalExercise, weight,
                   reps, dragX, isDragging, store, loads, swipeDeck>>

\* (variant) closeModal without setWeight(""), setReps(""), setNotes("")
ModalReset_KeepsFields ==
    /\ modalOpen' = FALSE
    /\ modalExercise' = Null
    /\ UNCHANGED <<weight, reps, notes>>
    /\ swipeDeck' = <<>>

\* closeModal: what it does to the modal's own state
ModalReset ==
    /\ modalOpen' = FALSE
    /\ modalExercise' = Null
    /\ weight' = <<>>
    /\ reps' = <<>>
    /\ notes' = <<>>
    /\ swipeDeck' = <<>>

\* the Save button: saveLog, which ends in closeModal(true)
SaveClick(t) ==
    /\ modalOpen
    /\ Event("save")
    /\ IF modalExercise = Null
       THEN UNCHANGED <<exercises, deck, store, modalOpen, modalExercise,
                        weight, reps, notes, swipeDeck>>
       ELSE /\ exercises' = AppendEntry(exercises, modalExercise.id, NewEntry(t))
            /\ deck' = SendToBack(deck, modalExercise.id)
            /\ store' = PersistDeck(PersistExercises(store, exercises'), deck')
            /\ ModalReset
    /\ UNCHANGED <<menuOpen, dragX, isDragging, loads>>

\* the Cancel button: its own setDeck, then closeModal(false) with a second
CancelClick ==
    /\ modalOpen
    /\ Event("cancel")
    /\ IF modalExercise # Null
       THEN /\ deck' = SnapBack(SnapBack(deck, modalExercise.id), modalExercise.id)
            /\ store' = PersistDeck(store, deck')
       ELSE UNCHANGED <<deck, store>>
    /\ ModalReset
    /\ UNCHANGED <<exercises, menuOpen, dragX, isDragging, loads>>

\* addExercise(name, muscle)
addExercise(name, muscle) ==
    LET id == deriveId(name)
        ex == [id |-> id, name |-> name, muscle |-> muscle, history |-> <<>>]
    IN  IF AddRefused(exercises, id)
        THEN /\ Event(IF Len(id) = 0 THEN "addEmptyId" ELSE "addTakenId")
             /\ UNCHANGED <<exercises, deck, store>>
        ELSE /\ Event("add")
             /\ exercises' = Append(exercises, ex)
             /\ deck' = Append(deck, id)
             /\ store' = PersistDeck(PersistExercises(store, exercises'), deck')

\* the Add button of the drawer's form
AddClick(name, muscle) ==
    /\ menuOpen
    /\ IF Len(trim(name)) = 0
       THEN /\ Event("addBlankName")
            /\ UNCHANGED <<exercises, deck, store>>
       ELSE addExercise(trim(name), TextOrUndefined(trim(muscle)))
    /\ UNCHANGED <<menuOpen, modalOpen, modalExercise, weight, reps, notes,
                   dragX, isDragging, loads, swipeDeck>>

\* removeExercise(id)
removeExercise(id) ==
    /\ exercises' = RemoveRecord(exercises, id)
    /\ deck' = RemoveFromDeck(deck, id)
    /\ store' = PersistDeck(PersistExercises(store, exercises'), deck')

\* a "remove" button of the drawer's list, one per record
RemoveClick(i) ==
    /\ menuOpen
    /\ Event("remove")
    /\ removeExercise(exercises[i].id)
    /\ UNCHANGED <<menuOpen, modalOpen, modalExercise, weight, reps, notes,
                   dragX, isDragging, loads, swipeDeck>>

Next ==
    \/ ToggleMenu
    \/ \E deltaX \in DeltaXs : OnSwiping(deltaX)
    \/ OnSwiped
    \/ SwipedLeft
    \/ SwipedRight
    \/ \E text \in WeightInputs : TypeWeight(text)
    \/ \E text \in RepsInputs : TypeReps(text)
    \/ \E text \in NotesInputs : TypeNotes(text)
    \/ \E t \in Dates : SaveClick(t)
    \/ CancelClick
    \/ \E name \in NameInputs, muscle \in MuscleInputs : AddClick(name, muscle)
    \/ \E i \in DOMAIN exercises : RemoveClick(i)

Spec == Init /\ [][Next]_vars

-----------------------------------------------------------------------------
(* Starting from a store that holds anything, and reloading the page *)

\* JavaScript's v === null, for the values a state variable may hold (TLC
\* cannot compare a sequence with a record; their printed forms differ)
IsNull(v) == ToString(v) = ToString(Null)

\* what an earlier session may have left: one record with one logged set
\* whose reps were not a number, and the deck of that record
savedExercises ==
    << [sampleExercises[2] EXCEPT
           !.history = << [date |-> 1, weight |-> Num(100), reps |-> NaN,
                           notes |-> Undefined] >>] >>
savedDeck == << sampleExercises[2].id >>

\* localStorage.getItem(key) before the app starts
StoredExercises ==
    {Missing, Blank, Garbage, JsonNull,
     [json |-> StringifyExercises(savedExercises)]}
StoredDecks ==
    {Missing, Blank, Garbage, JsonNull, [json |-> StringifyDeck(savedDeck)]}
AnyStores ==
    {[k \in {LS_KEYS.exercises, LS_KEYS.deck} |->
        IF k = LS_KEYS.exercises THEN e ELSE d] :
            e \in StoredExercises, d \in StoredDecks}

\* the useState initialisers have run; the rest of the first render (and
\* the effects after it) has not
InitAnyStore ==
    /\ store \in AnyStores
    /\ exercises = loadLS(store, LS_KEYS.exercises, sampleExercises)
    /\ deck = loadLS(store, LS_KEYS.deck, sampleDeck)
    /\ menuOpen = FALSE
    /\ modalOpen = FALSE
    /\ modalExercise = Null
    /\ weight = <<>>
    /\ reps = <<>>
    /\ notes = <<>>
    /\ dragX = 0
    /\ isDragging = FALSE
    /\ loads = [k \in {LS_KEYS.exercises, LS_KEYS.deck} |-> 1]
    /\ lastOp = "load"
    /\ steps = 0
    /\ swipeDeck = <<>>

\* deck[0] and exercises.find(...) of the render throw a TypeError on null
RenderThrows == IsNull(exercises) \/ IsNull(deck)

\* the first render goes through and the two persist effects run
Mount ==
    /\ lastOp = "load"
    /\ ~RenderThrows
    /\ store' = PersistDeck(PersistExercises(store, exercises), deck)
    /\ lastOp' = "start"
    /\ UNCHANGED <<exercises, deck, menuOpen, modalOpen, modalExercise, weight,
                   reps, notes, dragX, isDragging, loads, steps, swipeDeck>>

\* the first render throws: nothing is rendered and no effect runs
Crash ==
    /\ lastOp = "load"
    /\ RenderThrows
    /\ lastOp' = "crash"
    /\ UNCHANGED <<exercises, deck, menuOpen, modalOpen, modalExercise, weight,
                   reps, notes, dragX, isDragging, store, loads, steps,
                   swipeDeck>>

\* the page is reloaded: every useState starts again from its initialiser
Restart ==
    /\ lastOp # "load"
    /\ Event("load")
    /\ exercises' = loadLS(store, LS_KEYS.exercises, sampleExercises)
    /\ deck' = loadLS(store, LS_KEYS.deck, sampleDeck)
    /\ menuOpen' = FALSE
    /\ modalOpen' = FALSE
    /\ modalExercise' = Null
    /\ weight' = <<>>
    /\ reps' = <<>>
    /\ notes' = <<>>
    /\ dragX' = 0
    /\ isDragging' = FALSE
    /\ swipeDeck' = <<>>
    /\ UNCHANGED <<store, loads>>

\* the app is mounted: its handlers can run
Running == lastOp \notin {"load", "crash"}

NextReload ==
    \/ Mount
    \/ Crash
    \/ Restart
    \/ Running /\ Next

SpecReload == InitAnyStore /\ [][NextReload]_vars

-----------------------------------------------------------------------------
(* One Create with any name *)

\* the names of the id derivation's study have at most this many characters
MaxNameLen == 4

\* an upper-case letter, a lower-case letter, a digit, white space and
\* the separator itself
NameAlphabet == {"A", "b", "1", " ", "-"}

\* every text of at most MaxNameLen characters of the alphabet
BoundedNames == UNION {[1..n -> NameAlphabet] : n \in 0..MaxNameLen}

\* first run: the drawer is opened and one exercise is created
NextDeriveId ==
    \/ lastOp = "start" /\ ToggleMenu
    \/ lastOp = "menu" /\
         \E name \in BoundedNames, muscle \in MuscleInputs : AddClick(name, muscle)

SpecDeriveId == Init /\ [][NextDeriveId]_vars

-----------------------------------------------------------------------------
(* Vocabulary of the properties *)

IsPrefix(a, b) == Len(a) <= Len(b) /\ SubSeq(b, 1, Len(a)) = a

\* a without the elements equal to x, order kept
RECURSIVE Without(_, _)
Without(a, x) ==
    IF Len(a) = 0 THEN <<>>
    ELSE IF Head(a) = x THEN Without(Tail(a), x)
    ELSE <<Head(a)>> \o Without(Tail(a), x)

\* arr without the records whose id is id, order kept
RECURSIVE WithoutRecord(_, _)
WithoutRecord(arr, id) ==
    IF Len(arr) = 0 THEN <<>>
    ELSE IF Head(arr).id = id THEN WithoutRecord(Tail(arr), id)
    ELSE <<Head(arr)>> \o WithoutRecord(Tail(arr), id)

\* the history logged under id, empty when the Catalog has no such record
HistoryOf(arr, id) == IF id \in Ids(arr) THEN Find(arr, id).history ELSE <<>>

\* every record of a is in b at the same place with the same history
SameHistories(a, b) ==
    /\ Len(a) = Len(b)
    /\ \A i \in DOMAIN a : b[i].id = a[i].id /\ b[i].history = a[i].history

\* the number of SetEntries logged in the whole Catalog
TotalLogs(arr) ==
    LET RECURSIVE Sum(_)
        Sum(i) == IF i = 0 THEN 0 ELSE Len(arr[i].history) + Sum(i - 1)
    IN  Sum(Len(arr))

\* the ids the model can form
IdUniverse ==
    (Ids(sampleExercises) \cup {deriveId(trim(n)) : n \in NameInputs}) \ {<<>>}

Deadlift == sampleExercises[1].id

\* what the Add button may leave in lastOp
AddOutcomes == {"add", "addTakenId", "addEmptyId", "addBlankName"}

-----------------------------------------------------------------------------
(* C1 *)

\* C1: a Skip (a left swipe with a current card) turns the deck into the
\* old deck without its head, with the old head put back at index
\* min(4, len(rest)): index 4 when the deck had five or more cards, the
\* tail when it had fewer.  The other ids keep their relative order and
\* the Catalog is untouched.
C1_SkipReinsertsHead ==
    [][(SwipedLeft /\ current # Null) =>
        LET n == Len(deck)
            k == IF n >= 5 THEN 5 ELSE n
        IN  /\ n > 0
            /\ Len(deck') = n
            /\ deck'[k] = deck[1]
            /\ \A i \in 1..(k - 1) : deck'[i] = deck[i + 1]
            /\ \A i \in (k + 1)..n : deck'[i] = deck[i]
            /\ exercises' = exercises]_vars

\* a Skip on a deck of six: the head sits at index 4 and is not the tail
C1_SkippedOnDeckOfSix ==
    /\ lastOp = "skip"
    /\ Len(deck) = 6
    /\ deck[5] = Deadlift
    /\ deck[6] # Deadlift

-----------------------------------------------------------------------------
(* C2 *)

\* C2: Cancel leaves the Deck as it was before the right-swipe -- or, when
\* exercises were added or removed while the modal was open, as those
\* additions and removals left it -- and changes no exercise's history.
C2_CancelRestoresDeck ==
    [][CancelClick =>
        /\ deck' = swipeDeck \/ deck' = deck
        /\ SameHistories(exercises, exercises')]_vars

-----------------------------------------------------------------------------
(* C3 *)

\* C3: Save moves the pending exercise's id from the head of the Deck to
\* its tail, the other ids keeping their order, and appends exactly one
\* SetEntry to the end of that exercise's history; no other history and
\* no other part of a record changes, and the Catalog keeps its records.
C3_SaveSendsHeadToBackAndLogs ==
    [][\A t \in Dates :
        (SaveClick(t) /\ modalExercise # Null) =>
            LET id == modalExercise.id
            IN  /\ Len(deck) > 0
                /\ deck[1] = id
                /\ deck' = Tail(deck) \o <<id>>
                /\ id \in Ids(exercises)
                /\ Len(exercises') = Len(exercises)
                /\ \A i \in DOMAIN exercises :
                    /\ exercises'[i].id = exercises[i].id
                    /\ exercises'[i].name = exercises[i].name
                    /\ exercises'[i].muscle = exercises[i].muscle
                    /\ IF exercises[i].id = id
                       THEN /\ Len(exercises'[i].history) = Len(exercises[i].history) + 1
                            /\ IsPrefix(exercises[i].history, exercises'[i].history)
                       ELSE exercises'[i].history = exercises[i].history]_vars

-----------------------------------------------------------------------------
(* C4 *)

\* C4: of the modal's interactions only a Save with a pending exercise
\* changes the Catalog, and every such Save adds a SetEntry to it.
C4_CatalogChangesIffSaveWithPending ==
    [][/\ SwipedRight => exercises' = exercises
       /\ CancelClick => exercises' = exercises
       /\ \A t \in Dates :
            /\ (SaveClick(t) /\ modalExercise = Null) => exercises' = exercises
            /\ (SaveClick(t) /\ modalExercise # Null) =>
                   TotalLogs(exercises') = TotalLogs(exercises) + 1]_vars

-----------------------------------------------------------------------------
(* C5 *)

\* C5: while the modal is open no Skip and no right-swipe happens: as long
\* as it stays open the pending exercise is the same, the drag state does
\* not move, and the Deck and the Catalog change only through the drawer
\* (add, remove), never through a gesture on the card.
C5_NoSwipeWhileModalOpen ==
    [][modalOpen =>
        /\ ~SwipedLeft
        /\ ~SwipedRight
        /\ modalOpen' => modalExercise' = modalExercise
        /\ (modalOpen' /\ (deck' # deck \/ exercises' # exercises))
               => lastOp' \in {"add", "remove"}
        /\ dragX' = dragX /\ isDragging' = isDragging]_vars

\* the modal is open over a rendered card, and the user has gone on
\* (typed into the modal) while it was open
C5_ModalOpenOverCard ==
    /\ modalOpen
    /\ CardRendered
    /\ lastOp = "type"

-----------------------------------------------------------------------------
(* C6 *)

\* C6: the Deck is a permutation of the Catalog ids: every id of the Deck
\* has a record, and every Catalog id occurs in the Deck exactly once.
C6_DeckIsPermutationOfCatalog ==
    /\ Range(deck) = Ids(exercises)
    /\ Len(deck) = Cardinality(Ids(exercises))
    /\ Len(exercises) = Cardinality(Ids(exercises))

-----------------------------------------------------------------------------
(* C7 *)

\* C7 as claimed: in every step the history logged under each id of the
\* Catalog keeps its previous content as a prefix; no operation, remove
\* included, takes a logged SetEntry away.
C7_HistoryAppendOnly ==
    [][\A i \in DOMAIN exercises :
        IsPrefix(exercises[i].history,
                 HistoryOf(exercises', exercises[i].id))]_vars

\* C7 as amended: in every step, every exercise that is still in the
\* Catalog after the step keeps its previous history as a prefix, and an
\* exercise leaves the Catalog (with its history) only by a remove.
C7_HistoryAppendOnlyUntilRemoved ==
    [][\A i \in DOMAIN exercises :
        IF exercises[i].id \in Ids(exercises')
        THEN IsPrefix(exercises[i].history,
                      HistoryOf(exercises', exercises[i].id))
        ELSE lastOp' = "remove"]_vars

\* a Save has appended to a history that already held an entry
C7_SecondEntryLogged ==
    /\ lastOp = "save"
    /\ \E i \in DOMAIN exercises :
        /\ Len(exercises[i].history) = 2
        /\ exercises[i].history[1] # exercises[i].history[2]

-----------------------------------------------------------------------------
(* C8 *)

\* C8: creating an exercise whose derived id is empty or already in the
\* Catalog changes neither the Catalog nor the Deck; otherwise it appends
\* one record with an empty history to the Catalog and the id to the tail
\* of the Deck, and leaves the existing records and ids as they were.
C8_CreateExercise ==
    [][\A name \in NameInputs, muscle \in MuscleInputs :
        (lastOp' \in AddOutcomes /\ AddClick(name, muscle)) =>
            LET id == deriveId(trim(name))
                n == Len(exercises)
            IN  IF Len(id) = 0 \/ \E i \in DOMAIN exercises : exercises[i].id = id
                THEN exercises' = exercises /\ deck' = deck
                ELSE /\ Len(exercises') = n + 1
                     /\ SubSeq(exercises', 1, n) = exercises
                     /\ exercises'[n + 1].id = id
                     /\ exercises'[n + 1].name = trim(name)
                     /\ exercises'[n + 1].history = <<>>
                     /\ Len(deck') = Len(deck) + 1
                     /\ SubSeq(deck', 1, Len(deck)) = deck
                     /\ deck'[Len(deck) + 1] = id]_vars

\* an Add has been refused for a taken id after another Add had gone
\* through: the Catalog holds one record more than the seed
C8_AddRefusedAfterAdd ==
    /\ lastOp = "addTakenId"
    /\ Len(exercises) = Len(sampleExercises) + 1
    /\ exercises[Len(exercises)].id = <<"r", "o", "w">>
    /\ deck = Append(sampleDeck, <<"r", "o", "w">>)

-----------------------------------------------------------------------------
(* C9 *)

\* C9: a remove takes the record of that id out of the Catalog and every
\* occurrence of the id out of the Deck, the remaining records and ids
\* keeping their order; removing an id that is in neither changes nothing.
C9_RemoveExercise ==
    [][/\ \A i \in DOMAIN exercises :
            (lastOp' = "remove" /\ RemoveClick(i)) =>
                /\ exercises' = WithoutRecord(exercises, exercises[i].id)
                /\ deck' = Without(deck, exercises[i].id)
                /\ exercises[i].id \notin Ids(exercises')
                /\ exercises[i].id \notin Range(deck')
       /\ \A id \in IdUniverse :
            (id \notin Ids(exercises) /\ id \notin Range(deck)) =>
                /\ RemoveRecord(exercises, id) = exercises
                /\ RemoveFromDeck(deck, id) = deck]_vars

\* a remove has taken an id out of the middle of the Deck, and some id of
\* the model is in neither the Catalog nor the Deck
C9_RemovedFromTheMiddle ==
    /\ lastOp = "remove"
    /\ Len(deck) = 3
    /\ deck[1] = Deadlift
    /\ Len(exercises) = 3
    /\ exercises[3].id = <<"d", "i", "p">>
    /\ \E id \in IdUniverse : id \notin Ids(exercises) /\ id \notin Range(deck)

-----------------------------------------------------------------------------
(* C10 *)

\* C10: after startup and after every handler (with the effects its
\* render runs) each key of the store holds the JSON text of the value in
\* memory: the exercise list under LS_KEYS.exercises, the deck under
\* LS_KEYS.deck; and each key has been read exactly once.
C10_StoreFollowsState ==
    /\ store[LS_KEYS.exercises] = [json |-> StringifyExercises(exercises)]
    /\ store[LS_KEYS.deck] = [json |-> StringifyDeck(deck)]
    /\ \A k \in DOMAIN loads : loads[k] = 1

\* the Deck and the Catalog have both moved away from the seed: an entry
\* is logged and the Deck is reordered
C10_SavedAfterLogging ==
    /\ lastOp = "save"
    /\ TotalLogs(exercises) = 1
    /\ deck # sampleDeck
    /\ exercises # sampleExercises

-----------------------------------------------------------------------------
(* C11 *)

\* the key is missing or what it holds cannot be used as JSON text
Unusable(raw) == raw \in {Missing, Blank, Garbage}

\* C11: when the initialisers have run, the Catalog is a list of records
\* and the Deck a list of ids, whatever the store held: the fallback (the
\* seed) for a key that is missing or holds a malformed value, and the
\* stored value otherwise.
C11_StartupYieldsLists ==
    lastOp = "load" =>
        /\ ~IsNull(exercises)
        /\ ~IsNull(deck)
        /\ exercises =
              IF Unusable(store[LS_KEYS.exercises]) THEN sampleExercises
              ELSE JSONparse(LS_KEYS.exercises, store[LS_KEYS.exercises])
        /\ deck =
              IF Unusable(store[LS_KEYS.deck]) THEN sampleDeck
              ELSE JSONparse(LS_KEYS.deck, store[LS_KEYS.deck])

-----------------------------------------------------------------------------
(* C12 *)

\* what the modal shows and holds
modalState == <<modalOpen, modalExercise, weight, reps, notes>>

\* C12: with no current card (the Deck is empty or its head has no
\* record) a left or right swipe leaves the Deck, the Catalog and the
\* modal state as they were.
C12_SwipeWithoutCurrentCard ==
    [][(current = Null /\ (SwipedLeft \/ SwipedRight)) =>
        /\ deck' = deck
        /\ exercises' = exercises
        /\ modalState' = modalState]_vars

\* a swipe has ended over an empty Deck, and no modal is open
C12_SwipedOverEmptyDeck ==
    /\ lastOp \in {"skip", "open"}
    /\ deck = <<>>
    /\ ~modalOpen

-----------------------------------------------------------------------------
(* C13 *)

\* the place of the first x in d
FirstIndex(d, x) ==
    CHOOSE i \in DOMAIN d : d[i] = x /\ \A k \in 1..(i - 1) : d[k] # x

\* the step takes the head off the Deck: a Skip or a Save
HeadConsumed ==
    \/ lastOp' = "skip" /\ current # Null
    \/ lastOp' = "save" /\ modalExercise # Null

\* C13: a skipped exercise is current again after at most 4 further
\* Skips and Saves.  Step by step: a Skip puts the head among the first
\* five ids; every Skip or Save moves each id waiting at places 2 to 5 one
\* place towards the head; no other operation (add, cancel, removal of
\* another exercise) moves a waiting id away from the head; and a waiting
\* id leaves the Deck only when it is removed itself.
C13_SkippedCardResurfaces ==
    [][/\ (lastOp' = "skip" /\ current # Null) =>
            FirstIndex(deck', deck[1]) <= SkipOffset + 1
       /\ \A x \in Range(deck) :
            LET i == FirstIndex(deck, x)
            IN  i > 1 =>
                    IF x \notin Range(deck')
                    THEN lastOp' = "remove" /\ x \notin Ids(exercises')
                    ELSE /\ FirstIndex(deck', x) <= i
                         /\ (HeadConsumed /\ i <= SkipOffset + 1) =>
                                FirstIndex(deck', x) = i - 1]_vars

\* on a Deck of six, Deadlift was skipped to place 5 and the next Skip, of
\* Back Squat, has moved it up to place 4
C13_SkippedCardMovedUp ==
    /\ lastOp = "skip"
    /\ Len(deck) = 6
    /\ deck[4] = Deadlift
    /\ deck[5] = sampleExercises[2].id
    /\ deck[1] = sampleExercises[3].id

-----------------------------------------------------------------------------
(* C14 *)

\* lowercase alphanumeric segments joined by single "-", none at either end
IsSlug(s) ==
    /\ \A i \in DOMAIN s : IsSlugChar(s[i]) \/ s[i] = "-"
    /\ Len(s) > 0 => s[1] # "-" /\ s[Len(s)] # "-"
    /\ \A i \in 1..(Len(s) - 1) : ~(s[i] = "-" /\ s[i + 1] = "-")

\* C14: the id the Create operation derives from any name is a slug
\* (lowercase alphanumeric segments joined by single separators, none
\* leading or trailing), and deriving an id from that id gives it again.
C14_DeriveIdIdempotentSlug ==
    [][lastOp' = "add" =>
        LET created == exercises'[Len(exercises')]
        IN  /\ created.id = deriveId(created.name)
            /\ IsSlug(created.id)
            /\ deriveId(created.id) = created.id]_vars

\* "A -1" has been created as a-1
C14_CreatedFromMixedName ==
    /\ lastOp = "add"
    /\ exercises[Len(exercises)].name = <<"A", " ", "-", "1">>
    /\ exercises[Len(exercises)].id = <<"a", "-", "1">>

-----------------------------------------------------------------------------
(* C15 *)

\* C15: every record of the Catalog, the seed's included, has an id that
\* no other record has and that is the slug derived from its name; so no
\* two records of the Catalog have the same name.
C15_IdsAreSlugsOfNames ==
    /\ \A i, j \in DOMAIN exercises :
        (exercises[i].id = exercises[j].id \/ exercises[i].name = exercises[j].name)
            => i = j
    /\ \A i \in DOMAIN exercises : exercises[i].id = deriveId(exercises[i].name)

-----------------------------------------------------------------------------
(* C16 *)

\* the modal is open exactly when a pending exercise is held, and a
\* closed modal has blank fields
ModalConsistent ==
    /\ modalOpen <=> modalExercise # Null
    /\ ~modalOpen => weight = <<>> /\ reps = <<>> /\ notes = <<>>

\* C16: the modal goes closed -> open(pending) -> closed.  It opens only
\* by a right-swipe on a current card, which becomes the pending
\* exercise, and it opens with blank fields; it is open exactly when a
\* pending exercise is held; Save and Cancel close it and nothing else
\* does; a closed modal holds no pending exercise and blank fields.
C16_ModalLifecycle ==
    [][/\ ModalConsistent /\ ModalConsistent'
       /\ (~modalOpen /\ modalOpen') =>
            /\ lastOp' = "open"
            /\ current # Null
            /\ modalExercise' = current
            /\ weight' = <<>> /\ reps' = <<>> /\ notes' = <<>>
       /\ (modalOpen /\ lastOp' \in {"save", "cancel"}) => ~modalOpen'
       /\ (modalOpen /\ ~modalOpen') => lastOp' \in {"save", "cancel"}
       /\ (modalOpen /\ modalOpen') => modalExercise' = modalExercise]_vars

\* the modal has been opened again, blank, after a Save of typed fields
C16_ReopenedBlank ==
    /\ lastOp = "open"
    /\ modalOpen
    /\ weight = <<>> /\ reps = <<>> /\ notes = <<>>
    /\ \E i \in DOMAIN exercises :
        /\ Len(exercises[i].history) = 1
        /\ exercises[i].history[1].weight # Undefined

-----------------------------------------------------------------------------
(* C17 *)

\* C17: whenever the modal is open, the pending exercise's id is the id
\* at the head of the Deck and its record is in the Catalog (so that Save
\* and Cancel, which write over the head, touch no other id).
C17_PendingIsHead ==
    modalOpen =>
        /\ Len(deck) > 0
        /\ deck[1] = modalExercise.id
        /\ modalExercise.id \in Ids(exercises)

-----------------------------------------------------------------------------
(* C18 *)

\* the ids at the first n places of d
FirstIds(d, n) == {d[i] : i \in 1..Min(n, Len(d))}

\* C18: a Skip leaves every place of the Deck after the fifth as it was
\* and only rotates the first five among themselves: the next current
\* card is the one that was second, so under Skips alone no id from
\* beyond the fifth place becomes current.
C18_SkipRotatesFirstFive ==
    [][(lastOp' = "skip" /\ current # Null) =>
        /\ Len(deck') = Len(deck)
        /\ \A i \in (SkipOffset + 2)..Len(deck) : deck'[i] = deck[i]
        /\ FirstIds(deck', SkipOffset + 1) = FirstIds(deck, SkipOffset + 1)
        /\ Len(deck) > 1 => deck'[1] = deck[2]]_vars

\* two Skips on a Deck of six: the sixth place still holds the exercise
\* created last, and the two skipped ids are behind the other three
C18_SixthStaysPut ==
    /\ lastOp = "skip"
    /\ Len(deck) = 6
    /\ Len(exercises) = 6
    /\ deck[6] = exercises[6].id
    /\ deck[5] = sampleExercises[2].id
    /\ deck[4] = sampleExercises[1].id

-----------------------------------------------------------------------------
(* C19 *)

\* C19: a restart at any point gives back exactly the Catalog and the
\* Deck that were in memory, with the modal closed; a restart while the
\* modal is open does what Cancel does: the Deck is as it was before the
\* right-swipe (or as the additions and removals made since have left it)
\* and no SetEntry has been added.
C19_RestartKeepsCatalogAndDeck ==
    [][Restart =>
        /\ exercises' = exercises
        /\ deck' = deck
        /\ ~modalOpen' /\ modalExercise' = Null
        /\ modalOpen =>
            /\ deck' = swipeDeck \/ deck' = deck
            /\ TotalLogs(exercises') = TotalLogs(exercises)]_vars

-----------------------------------------------------------------------------
(* C20 *)

\* C20: the dragging flag is raised only by a swipe in progress, and the
\* offset is 0 whenever the flag is down; after every gesture end (a left
\* swipe, a right swipe, a drag that ends in neither) the offset is 0 and
\* the flag is down; a drag that ends in neither changes neither the
\* Deck, the Catalog nor the modal state.
C20_GestureEndResetsDrag ==
    [][/\ (isDragging' /\ ~isDragging) => lastOp' = "swiping"
       /\ ~isDragging' => dragX' = 0
       /\ lastOp' \in {"skip", "open", "swiped"} =>
            dragX' = 0 /\ ~isDragging'
       /\ lastOp' = "swiped" =>
            /\ deck' = deck
            /\ exercises' = exercises
            /\ modalState' = modalState]_vars

\* a drag has ended in neither direction over an empty Deck: it was in
\* progress while the last exercise was removed
C20_DragEndedAfterCardLeft ==
    /\ lastOp = "swiped"
    /\ ~CardRendered
    /\ ~isDragging
    /\ dragX = 0

====
